---- MODULE Spec2Model ----
(***************************************************************************)
(* Model of Qaunt.py: the help-center scraper.                             *)
(*   get_help_articles  (link extractor)   -> LinkSpec                     *)
(*   scrape_article     (article scraper)  -> ScrapeSpec                   *)
(*   chunk_text_blocks  (chunker)          -> Spec                         *)
(*   main               (driver)           -> MainSpec                     *)
(* A Python str is a sequence of one-character strings, so that len, +,    *)
(* in, startswith, lower, strip and "\n".join are computed, not assumed.   *)
(* A page is the flat sequence of the elements find_all visits; lists      *)
(* nested in lists and paragraphs nested in list items are not modelled.   *)
(***************************************************************************)
EXTENDS Integers, Sequences, FiniteSets, TLC

VARIABLES pc,
          text_blocks, max_length, block_i, current_chunk, chunks,
          hrefs, article_links,
          doc, article_container, content_blocks,
          article_urls, url_i, all_chunks, responses, console, output_file

chunkVars  == <<text_blocks, max_length, block_i, current_chunk, chunks>>
linkVars   == <<hrefs, article_links>>
scrapeVars == <<doc, article_container, content_blocks>>
mainVars   == <<article_urls, url_i, all_chunks, responses, console, output_file>>
vars == <<pc, text_blocks, max_length, block_i, current_chunk, chunks,
          hrefs, article_links, doc, article_container, content_blocks,
          article_urls, url_i, all_chunks, responses, console, output_file>>

\* Value of a variable that the running component does not own.
Idle == "idle"

-----------------------------------------------------------------------------
(* Python str operations *)

NL == "\n"

Range(s) == {s[i] : i \in 1..Len(s)}

\* all sequences over S of length 0..n
SeqsUpTo(S, n) == UNION {[1..k -> S] : k \in 0..n}

RECURSIVE Concat(_)
Concat(ss) == IF ss = <<>> THEN <<>> ELSE Head(ss) \o Concat(Tail(ss))

\* sep.join(parts)
RECURSIVE Join(_, _)
Join(parts, sep) ==
    IF parts = <<>> THEN <<>>
    ELSE IF Len(parts) = 1 THEN parts[1]
    ELSE parts[1] \o sep \o Join(Tail(parts), sep)

\* s.startswith(p)
StartsWith(s, p) == Len(s) >= Len(p) /\ SubSeq(s, 1, Len(p)) = p

\* p in s
Contains(s, p) ==
    \E k \in 0..(Len(s) - Len(p)) : SubSeq(s, k + 1, k + Len(p)) = p

-----------------------------------------------------------------------------
(* Characters.  A character is a one-character string for the printable    *)
(* ASCII characters, "\t", "\n", "\r" for tab, newline and carriage        *)
(* return, and "U+XXXX" (the code point in hexadecimal) for any other.     *)
(* The tables below are those of the Unicode database Python's str uses.   *)

HexDigits ==
    <<"0", "1", "2", "3", "4", "5", "6", "7", "8", "9", "A", "B", "C", "D", "E", "F">>

RECURSIVE HexStr(_)
HexStr(n) ==
    IF n < 16 THEN HexDigits[n + 1]
    ELSE HexStr(n \div 16) \o HexDigits[(n % 16) + 1]

\* the printable ASCII characters, code points 32..126 (the grave accent,
\* which a string of this language cannot hold, by its code point)
AsciiChars ==
    <<" ", "!", "\"", "#", "$", "%", "&", "'", "(", ")", "*", "+", ",", "-",
      ".", "/", "0", "1", "2", "3", "4", "5", "6", "7", "8", "9", ":", ";",
      "<", "=", ">", "?", "@", "A", "B", "C", "D", "E", "F", "G", "H", "I",
      "J", "K", "L", "M", "N", "O", "P", "Q", "R", "S", "T", "U", "V", "W",
      "X", "Y", "Z", "[", "\\", "]", "^", "_", "U+0060", "a", "b", "c", "d", "e",
      "f", "g", "h", "i", "j", "k", "l", "m", "n", "o", "p", "q", "r", "s",
      "t", "u", "v", "w", "x", "y", "z", "{", "|", "}", "~">>

\* chr(n)
CharOf(n) ==
    IF n \in 32..126 THEN AsciiChars[n - 31]
    ELSE IF n = 9 THEN "\t"
    ELSE IF n = 10 THEN NL
    ELSE IF n = 13 THEN "\r"
    ELSE "U+" \o (IF n < 16 THEN "000" ELSE IF n < 256 THEN "00"
                  ELSE IF n < 4096 THEN "0" ELSE "") \o HexStr(n)

\* the characters of the code point ranges <<first, last>> of rs
CharsIn(rs) == UNION {{CharOf(n) : n \in rs[k][1]..rs[k][2]} : k \in 1..Len(rs)}

\* the code points str.strip() removes (str.isspace)
WhitespaceRanges ==
    <<<<9, 13>>, <<28, 32>>, <<133, 133>>, <<160, 160>>, <<5760, 5760>>,
      <<8192, 8202>>, <<8232, 8233>>, <<8239, 8239>>, <<8287, 8287>>,
      <<12288, 12288>>>>

\* str.strip() removes these from both ends; the ASCII ones also in their
\* escaped and their code point spelling
Whitespace ==
    CharsIn(WhitespaceRanges)
        \cup {"\t", "\r", "\f", "U+0009", "U+000A", "U+000D", "U+0020"}

\* str.lower(): the code points with a one-character lower case, as
\* <<first, last, step, delta>>: every step-th code point n of first..last
\* has the lower case n + delta
LowerRanges ==
    <<<<65, 90, 1, 32>>, <<192, 214, 1, 32>>, <<216, 222, 1, 32>>,
      <<256, 302, 2, 1>>, <<306, 310, 2, 1>>, <<313, 327, 2, 1>>,
      <<330, 374, 2, 1>>, <<376, 376, 1, -121>>, <<377, 381, 2, 1>>,
      <<385, 385, 1, 210>>, <<386, 388, 2, 1>>, <<390, 390, 1, 206>>,
      <<391, 391, 1, 1>>, <<393, 394, 1, 205>>, <<395, 395, 1, 1>>,
      <<398, 398, 1, 79>>, <<399, 399, 1, 202>>, <<400, 400, 1, 203>>,
      <<401, 401, 1, 1>>, <<403, 403, 1, 205>>, <<404, 404, 1, 207>>,
      <<406, 406, 1, 211>>, <<407, 407, 1, 209>>, <<408, 408, 1, 1>>,
      <<412, 412, 1, 211>>, <<413, 413, 1, 213>>, <<415, 415, 1, 214>>,
      <<416, 420, 2, 1>>, <<422, 422, 1, 218>>, <<423, 423, 1, 1>>,
      <<425, 425, 1, 218>>, <<428, 428, 1, 1>>, <<430, 430, 1, 218>>,
      <<431, 431, 1, 1>>, <<433, 434, 1, 217>>, <<435, 437, 2, 1>>,
      <<439, 439, 1, 219>>, <<440, 440, 1, 1>>, <<444, 444, 1, 1>>,
      <<452, 452, 1, 2>>, <<453, 453, 1, 1>>, <<455, 455, 1, 2>>,
      <<456, 456, 1, 1>>, <<458, 458, 1, 2>>, <<459, 475, 2, 1>>,
      <<478, 494, 2, 1>>, <<497, 497, 1, 2>>, <<498, 500, 2, 1>>,
      <<502, 502, 1, -97>>, <<503, 503, 1, -56>>, <<504, 542, 2, 1>>,
      <<544, 544, 1, -130>>, <<546, 562, 2, 1>>, <<570, 570, 1, 10795>>,
      <<571, 571, 1, 1>>, <<573, 573, 1, -163>>, <<574, 574, 1, 10792>>,
      <<577, 577, 1, 1>>, <<579, 579, 1, -195>>, <<580, 580, 1, 69>>,
      <<581, 581, 1, 71>>, <<582, 590, 2, 1>>, <<880, 882, 2, 1>>,
      <<886, 886, 1, 1>>, <<895, 895, 1, 116>>, <<902, 902, 1, 38>>,
      <<904, 906, 1, 37>>, <<908, 908, 1, 64>>, <<910, 911, 1, 63>>,
      <<913, 929, 1, 32>>, <<932, 939, 1, 32>>, <<975, 975, 1, 8>>,
      <<984, 1006, 2, 1>>, <<1012, 1012, 1, -60>>, <<1015, 1015, 1, 1>>,
      <<1017, 1017, 1, -7>>, <<1018, 1018, 1, 1>>, <<1021, 1023, 1, -130>>,
      <<1024, 1039, 1, 80>>, <<1040, 1071, 1, 32>>, <<1120, 1152, 2, 1>>,
      <<1162, 1214, 2, 1>>, <<1216, 1216, 1, 15>>, <<1217, 1229, 2, 1>>,
      <<1232, 1326, 2, 1>>, <<1329, 1366, 1, 48>>, <<4256, 4293, 1, 7264>>,
      <<4295, 4295, 1, 7264>>, <<4301, 4301, 1, 7264>>,
      <<5024, 5103, 1, 38864>>, <<5104, 5109, 1, 8>>, <<7312, 7354, 1, -3008>>,
      <<7357, 7359, 1, -3008>>, <<7680, 7828, 2, 1>>, <<7838, 7838, 1, -7615>>,
      <<7840, 7934, 2, 1>>, <<7944, 7951, 1, -8>>, <<7960, 7965, 1, -8>>,
      <<7976, 7983, 1, -8>>, <<7992, 7999, 1, -8>>, <<8008, 8013, 1, -8>>,
      <<8025, 8031, 2, -8>>, <<8040, 8047, 1, -8>>, <<8072, 8079, 1, -8>>,
      <<8088, 8095, 1, -8>>, <<8104, 8111, 1, -8>>, <<8120, 8121, 1, -8>>,
      <<8122, 8123, 1, -74>>, <<8124, 8124, 1, -9>>, <<8136, 8139, 1, -86>>,
      <<8140, 8140, 1, -9>>, <<8152, 8153, 1, -8>>, <<8154, 8155, 1, -100>>,
      <<8168, 8169, 1, -8>>, <<8170, 8171, 1, -112>>, <<8172, 8172, 1, -7>>,
      <<8184, 8185, 1, -128>>, <<8186, 8187, 1, -126>>, <<8188, 8188, 1, -9>>,
      <<8486, 8486, 1, -7517>>, <<8490, 8490, 1, -8383>>,
      <<8491, 8491, 1, -8262>>, <<8498, 8498, 1, 28>>, <<8544, 8559, 1, 16>>,
      <<8579, 8579, 1, 1>>, <<9398, 9423, 1, 26>>, <<11264, 11311, 1, 48>>,
      <<11360, 11360, 1, 1>>, <<11362, 11362, 1, -10743>>,
      <<11363, 11363, 1, -3814>>, <<11364, 11364, 1, -10727>>,
      <<11367, 11371, 2, 1>>, <<11373, 11373, 1, -10780>>,
      <<11374, 11374, 1, -10749>>, <<11375, 11375, 1, -10783>>,
      <<11376, 11376, 1, -10782>>, <<11378, 11378, 1, 1>>,
      <<11381, 11381, 1, 1>>, <<11390, 11391, 1, -10815>>,
      <<11392, 11490, 2, 1>>, <<11499, 11501, 2, 1>>, <<11506, 11506, 1, 1>>,
      <<42560, 42604, 2, 1>>, <<42624, 42650, 2, 1>>, <<42786, 42798, 2, 1>>,
      <<42802, 42862, 2, 1>>, <<42873, 42875, 2, 1>>,
      <<42877, 42877, 1, -35332>>, <<42878, 42886, 2, 1>>,
      <<42891, 42891, 1, 1>>, <<42893, 42893, 1, -42280>>,
      <<42896, 42898, 2, 1>>, <<42902, 42920, 2, 1>>,
      <<42922, 42922, 1, -42308>>, <<42923, 42923, 1, -42319>>,
      <<42924, 42924, 1, -42315>>, <<42925, 42925, 1, -42305>>,
      <<42926, 42926, 1, -42308>>, <<42928, 42928, 1, -42258>>,
      <<42929, 42929, 1, -42282>>, <<42930, 42930, 1, -42261>>,
      <<42931, 42931, 1, 928>>, <<42932, 42946, 2, 1>>,
      <<42948, 42948, 1, -48>>, <<42949, 42949, 1, -42307>>,
      <<42950, 42950, 1, -35384>>, <<42951, 42953, 2, 1>>,
      <<42960, 42960, 1, 1>>, <<42966, 42968, 2, 1>>, <<42997, 42997, 1, 1>>,
      <<65313, 65338, 1, 32>>, <<66560, 66599, 1, 40>>,
      <<66736, 66771, 1, 40>>, <<66928, 66938, 1, 39>>,
      <<66940, 66954, 1, 39>>, <<66956, 66962, 1, 39>>,
      <<66964, 66965, 1, 39>>, <<68736, 68786, 1, 64>>,
      <<71840, 71871, 1, 32>>, <<93760, 93791, 1, 32>>,
      <<125184, 125217, 1, 34>>>>

LowerPairs ==
    UNION {{<<CharOf(n), CharOf(n + LowerRanges[k][4])>> :
               n \in {m \in LowerRanges[k][1]..LowerRanges[k][2] :
                         (m - LowerRanges[k][1]) % LowerRanges[k][3] = 0}} :
           k \in 1..Len(LowerRanges)}

LowerDom == {p[1] : p \in LowerPairs}

LowerMap == [c \in LowerDom |-> (CHOOSE p \in LowerPairs : p[1] = c)[2]]

\* The code points that are case-ignorable: the scan for a final sigma
\* skips them.
CaseIgnorableRanges ==
    <<<<39, 39>>, <<46, 46>>, <<58, 58>>, <<94, 94>>, <<96, 96>>, <<168, 168>>,
      <<173, 173>>, <<175, 175>>, <<180, 180>>, <<183, 184>>, <<688, 879>>,
      <<884, 885>>, <<890, 890>>, <<900, 901>>, <<903, 903>>, <<1155, 1161>>,
      <<1369, 1369>>, <<1375, 1375>>, <<1425, 1469>>, <<1471, 1471>>,
      <<1473, 1474>>, <<1476, 1477>>, <<1479, 1479>>, <<1524, 1524>>,
      <<1536, 1541>>, <<1552, 1562>>, <<1564, 1564>>, <<1600, 1600>>,
      <<1611, 1631>>, <<1648, 1648>>, <<1750, 1757>>, <<1759, 1768>>,
      <<1770, 1773>>, <<1807, 1807>>, <<1809, 1809>>, <<1840, 1866>>,
      <<1958, 1968>>, <<2027, 2037>>, <<2042, 2042>>, <<2045, 2045>>,
      <<2070, 2093>>, <<2137, 2139>>, <<2184, 2184>>, <<2192, 2193>>,
      <<2200, 2207>>, <<2249, 2306>>, <<2362, 2362>>, <<2364, 2364>>,
      <<2369, 2376>>, <<2381, 2381>>, <<2385, 2391>>, <<2402, 2403>>,
      <<2417, 2417>>, <<2433, 2433>>, <<2492, 2492>>, <<2497, 2500>>,
      <<2509, 2509>>, <<2530, 2531>>, <<2558, 2558>>, <<2561, 2562>>,
      <<2620, 2620>>, <<2625, 2626>>, <<2631, 2632>>, <<2635, 2637>>,
      <<2641, 2641>>, <<2672, 2673>>, <<2677, 2677>>, <<2689, 2690>>,
      <<2748, 2748>>, <<2753, 2757>>, <<2759, 2760>>, <<2765, 2765>>,
      <<2786, 2787>>, <<2810, 2815>>, <<2817, 2817>>, <<2876, 2876>>,
      <<2879, 2879>>, <<2881, 2884>>, <<2893, 2893>>, <<2901, 2902>>,
      <<2914, 2915>>, <<2946, 2946>>, <<3008, 3008>>, <<3021, 3021>>,
      <<3072, 3072>>, <<3076, 3076>>, <<3132, 3132>>, <<3134, 3136>>,
      <<3142, 3144>>, <<3146, 3149>>, <<3157, 3158>>, <<3170, 3171>>,
      <<3201, 3201>>, <<3260, 3260>>, <<3263, 3263>>, <<3270, 3270>>,
      <<3276, 3277>>, <<3298, 3299>>, <<3328, 3329>>, <<3387, 3388>>,
      <<3393, 3396>>, <<3405, 3405>>, <<3426, 3427>>, <<3457, 3457>>,
      <<3530, 3530>>, <<3538, 3540>>, <<3542, 3542>>, <<3633, 3633>>,
      <<3636, 3642>>, <<3654, 3662>>, <<3761, 3761>>, <<3764, 3772>>,
      <<3782, 3782>>, <<3784, 3789>>, <<3864, 3865>>, <<3893, 3893>>,
      <<3895, 3895>>, <<3897, 3897>>, <<3953, 3966>>, <<3968, 3972>>,
      <<3974, 3975>>, <<3981, 3991>>, <<3993, 4028>>, <<4038, 4038>>,
      <<4141, 4144>>, <<4146, 4151>>, <<4153, 4154>>, <<4157, 4158>>,
      <<4184, 4185>>, <<4190, 4192>>, <<4209, 4212>>, <<4226, 4226>>,
      <<4229, 4230>>, <<4237, 4237>>, <<4253, 4253>>, <<4348, 4348>>,
      <<4957, 4959>>, <<5906, 5908>>, <<5938, 5939>>, <<5970, 5971>>,
      <<6002, 6003>>, <<6068, 6069>>, <<6071, 6077>>, <<6086, 6086>>,
      <<6089, 6099>>, <<6103, 6103>>, <<6109, 6109>>, <<6155, 6159>>,
      <<6211, 6211>>, <<6277, 6278>>, <<6313, 6313>>, <<6432, 6434>>,
      <<6439, 6440>>, <<6450, 6450>>, <<6457, 6459>>, <<6679, 6680>>,
      <<6683, 6683>>, <<6742, 6742>>, <<6744, 6750>>, <<6752, 6752>>,
      <<6754, 6754>>, <<6757, 6764>>, <<6771, 6780>>, <<6783, 6783>>,
      <<6823, 6823>>, <<6832, 6862>>, <<6912, 6915>>, <<6964, 6964>>,
      <<6966, 6970>>, <<6972, 6972>>, <<6978, 6978>>, <<7019, 7027>>,
      <<7040, 7041>>, <<7074, 7077>>, <<7080, 7081>>, <<7083, 7085>>,
      <<7142, 7142>>, <<7144, 7145>>, <<7149, 7149>>, <<7151, 7153>>,
      <<7212, 7219>>, <<7222, 7223>>, <<7288, 7293>>, <<7376, 7378>>,
      <<7380, 7392>>, <<7394, 7400>>, <<7405, 7405>>, <<7412, 7412>>,
      <<7416, 7417>>, <<7468, 7530>>, <<7544, 7544>>, <<7579, 7679>>,
      <<8125, 8125>>, <<8127, 8129>>, <<8141, 8143>>, <<8157, 8159>>,
      <<8173, 8175>>, <<8189, 8190>>, <<8203, 8207>>, <<8216, 8217>>,
      <<8228, 8228>>, <<8231, 8231>>, <<8234, 8238>>, <<8288, 8292>>,
      <<8294, 8303>>, <<8305, 8305>>, <<8319, 8319>>, <<8336, 8348>>,
      <<8400, 8432>>, <<11388, 11389>>, <<11503, 11505>>, <<11631, 11631>>,
      <<11647, 11647>>, <<11744, 11775>>, <<11823, 11823>>, <<12293, 12293>>,
      <<12330, 12333>>, <<12337, 12341>>, <<12347, 12347>>, <<12441, 12446>>,
      <<12540, 12542>>, <<40981, 40981>>, <<42232, 42237>>, <<42508, 42508>>,
      <<42607, 42610>>, <<42612, 42621>>, <<42623, 42623>>, <<42652, 42655>>,
      <<42736, 42737>>, <<42752, 42785>>, <<42864, 42864>>, <<42888, 42890>>,
      <<42994, 42996>>, <<43000, 43001>>, <<43010, 43010>>, <<43014, 43014>>,
      <<43019, 43019>>, <<43045, 43046>>, <<43052, 43052>>, <<43204, 43205>>,
      <<43232, 43249>>, <<43263, 43263>>, <<43302, 43309>>, <<43335, 43345>>,
      <<43392, 43394>>, <<43443, 43443>>, <<43446, 43449>>, <<43452, 43453>>,
      <<43471, 43471>>, <<43493, 43494>>, <<43561, 43566>>, <<43569, 43570>>,
      <<43573, 43574>>, <<43587, 43587>>, <<43596, 43596>>, <<43632, 43632>>,
      <<43644, 43644>>, <<43696, 43696>>, <<43698, 43700>>, <<43703, 43704>>,
      <<43710, 43711>>, <<43713, 43713>>, <<43741, 43741>>, <<43756, 43757>>,
      <<43763, 43764>>, <<43766, 43766>>, <<43867, 43871>>, <<43881, 43883>>,
      <<44005, 44005>>, <<44008, 44008>>, <<44013, 44013>>, <<64286, 64286>>,
      <<64434, 64450>>, <<65024, 65039>>, <<65043, 65043>>, <<65056, 65071>>,
      <<65106, 65106>>, <<65109, 65109>>, <<65279, 65279>>, <<65287, 65287>>,
      <<65294, 65294>>, <<65306, 65306>>, <<65342, 65342>>, <<65344, 65344>>,
      <<65392, 65392>>, <<65438, 65439>>, <<65507, 65507>>, <<65529, 65531>>,
      <<66045, 66045>>, <<66272, 66272>>, <<66422, 66426>>, <<67456, 67461>>,
      <<67463, 67504>>, <<67506, 67514>>, <<68097, 68099>>, <<68101, 68102>>,
      <<68108, 68111>>, <<68152, 68154>>, <<68159, 68159>>, <<68325, 68326>>,
      <<68900, 68903>>, <<69291, 69292>>, <<69446, 69456>>, <<69506, 69509>>,
      <<69633, 69633>>, <<69688, 69702>>, <<69744, 69744>>, <<69747, 69748>>,
      <<69759, 69761>>, <<69811, 69814>>, <<69817, 69818>>, <<69821, 69821>>,
      <<69826, 69826>>, <<69837, 69837>>, <<69888, 69890>>, <<69927, 69931>>,
      <<69933, 69940>>, <<70003, 70003>>, <<70016, 70017>>, <<70070, 70078>>,
      <<70089, 70092>>, <<70095, 70095>>, <<70191, 70193>>, <<70196, 70196>>,
      <<70198, 70199>>, <<70206, 70206>>, <<70367, 70367>>, <<70371, 70378>>,
      <<70400, 70401>>, <<70459, 70460>>, <<70464, 70464>>, <<70502, 70508>>,
      <<70512, 70516>>, <<70712, 70719>>, <<70722, 70724>>, <<70726, 70726>>,
      <<70750, 70750>>, <<70835, 70840>>, <<70842, 70842>>, <<70847, 70848>>,
      <<70850, 70851>>, <<71090, 71093>>, <<71100, 71101>>, <<71103, 71104>>,
      <<71132, 71133>>, <<71219, 71226>>, <<71229, 71229>>, <<71231, 71232>>,
      <<71339, 71339>>, <<71341, 71341>>, <<71344, 71349>>, <<71351, 71351>>,
      <<71453, 71455>>, <<71458, 71461>>, <<71463, 71467>>, <<71727, 71735>>,
      <<71737, 71738>>, <<71995, 71996>>, <<71998, 71998>>, <<72003, 72003>>,
      <<72148, 72151>>, <<72154, 72155>>, <<72160, 72160>>, <<72193, 72202>>,
      <<72243, 72248>>, <<72251, 72254>>, <<72263, 72263>>, <<72273, 72278>>,
      <<72281, 72283>>, <<72330, 72342>>, <<72344, 72345>>, <<72752, 72758>>,
      <<72760, 72765>>, <<72767, 72767>>, <<72850, 72871>>, <<72874, 72880>>,
      <<72882, 72883>>, <<72885, 72886>>, <<73009, 73014>>, <<73018, 73018>>,
      <<73020, 73021>>, <<73023, 73029>>, <<73031, 73031>>, <<73104, 73105>>,
      <<73109, 73109>>, <<73111, 73111>>, <<73459, 73460>>, <<78896, 78904>>,
      <<92912, 92916>>, <<92976, 92982>>, <<92992, 92995>>, <<94031, 94031>>,
      <<94095, 94111>>, <<94176, 94177>>, <<94179, 94180>>, <<110576, 110579>>,
      <<110581, 110587>>, <<110589, 110590>>, <<113821, 113822>>,
      <<113824, 113827>>, <<118528, 118573>>, <<118576, 118598>>,
      <<119143, 119145>>, <<119155, 119170>>, <<119173, 119179>>,
      <<119210, 119213>>, <<119362, 119364>>, <<121344, 121398>>,
      <<121403, 121452>>, <<121461, 121461>>, <<121476, 121476>>,
      <<121499, 121503>>, <<121505, 121519>>, <<122880, 122886>>,
      <<122888, 122904>>, <<122907, 122913>>, <<122915, 122916>>,
      <<122918, 122922>>, <<123184, 123197>>, <<123566, 123566>>,
      <<123628, 123631>>, <<125136, 125142>>, <<125252, 125259>>,
      <<127995, 127999>>, <<917505, 917505>>, <<917536, 917631>>,
      <<917760, 917999>>>>

CaseIgnorable == CharsIn(CaseIgnorableRanges)

\* The cased code points among those that are not case-ignorable.
CasedRanges ==
    <<<<65, 90>>, <<97, 122>>, <<170, 170>>, <<181, 181>>, <<186, 186>>,
      <<192, 214>>, <<216, 246>>, <<248, 442>>, <<444, 447>>, <<452, 659>>,
      <<661, 687>>, <<880, 883>>, <<886, 887>>, <<891, 893>>, <<895, 895>>,
      <<902, 902>>, <<904, 906>>, <<908, 908>>, <<910, 929>>, <<931, 1013>>,
      <<1015, 1153>>, <<1162, 1327>>, <<1329, 1366>>, <<1376, 1416>>,
      <<4256, 4293>>, <<4295, 4295>>, <<4301, 4301>>, <<4304, 4346>>,
      <<4349, 4351>>, <<5024, 5109>>, <<5112, 5117>>, <<7296, 7304>>,
      <<7312, 7354>>, <<7357, 7359>>, <<7424, 7467>>, <<7531, 7543>>,
      <<7545, 7578>>, <<7680, 7957>>, <<7960, 7965>>, <<7968, 8005>>,
      <<8008, 8013>>, <<8016, 8023>>, <<8025, 8025>>, <<8027, 8027>>,
      <<8029, 8029>>, <<8031, 8061>>, <<8064, 8116>>, <<8118, 8124>>,
      <<8126, 8126>>, <<8130, 8132>>, <<8134, 8140>>, <<8144, 8147>>,
      <<8150, 8155>>, <<8160, 8172>>, <<8178, 8180>>, <<8182, 8188>>,
      <<8450, 8450>>, <<8455, 8455>>, <<8458, 8467>>, <<8469, 8469>>,
      <<8473, 8477>>, <<8484, 8484>>, <<8486, 8486>>, <<8488, 8488>>,
      <<8490, 8493>>, <<8495, 8500>>, <<8505, 8505>>, <<8508, 8511>>,
      <<8517, 8521>>, <<8526, 8526>>, <<8544, 8575>>, <<8579, 8580>>,
      <<9398, 9449>>, <<11264, 11387>>, <<11390, 11492>>, <<11499, 11502>>,
      <<11506, 11507>>, <<11520, 11557>>, <<11559, 11559>>, <<11565, 11565>>,
      <<42560, 42605>>, <<42624, 42651>>, <<42786, 42863>>, <<42865, 42887>>,
      <<42891, 42894>>, <<42896, 42954>>, <<42960, 42961>>, <<42963, 42963>>,
      <<42965, 42969>>, <<42997, 42998>>, <<43002, 43002>>, <<43824, 43866>>,
      <<43872, 43880>>, <<43888, 43967>>, <<64256, 64262>>, <<64275, 64279>>,
      <<65313, 65338>>, <<65345, 65370>>, <<66560, 66639>>, <<66736, 66771>>,
      <<66776, 66811>>, <<66928, 66938>>, <<66940, 66954>>, <<66956, 66962>>,
      <<66964, 66965>>, <<66967, 66977>>, <<66979, 66993>>, <<66995, 67001>>,
      <<67003, 67004>>, <<68736, 68786>>, <<68800, 68850>>, <<71840, 71903>>,
      <<93760, 93823>>, <<119808, 119892>>, <<119894, 119964>>,
      <<119966, 119967>>, <<119970, 119970>>, <<119973, 119974>>,
      <<119977, 119980>>, <<119982, 119993>>, <<119995, 119995>>,
      <<119997, 120003>>, <<120005, 120069>>, <<120071, 120074>>,
      <<120077, 120084>>, <<120086, 120092>>, <<120094, 120121>>,
      <<120123, 120126>>, <<120128, 120132>>, <<120134, 120134>>,
      <<120138, 120144>>, <<120146, 120485>>, <<120488, 120512>>,
      <<120514, 120538>>, <<120540, 120570>>, <<120572, 120596>>,
      <<120598, 120628>>, <<120630, 120654>>, <<120656, 120686>>,
      <<120688, 120712>>, <<120714, 120744>>, <<120746, 120770>>,
      <<120772, 120779>>, <<122624, 122633>>, <<122635, 122654>>,
      <<125184, 125251>>, <<127280, 127305>>, <<127312, 127337>>,
      <<127344, 127369>>>>

CasedLetters == CharsIn(CasedRanges)

\* str.lower() of one character other than capital sigma: U+0130 has a
\* lower case of two characters
LowerChar(c) ==
    IF c = "U+0130" THEN <<"i", "U+0307">>
    ELSE IF c \in LowerDom THEN <<LowerMap[c]>>
    ELSE <<c>>

\* The capital sigma at s[i] is final: the nearest character before it that
\* is not case-ignorable is cased, and the nearest such character after it,
\* if any, is not.
FinalSigma(s, i) ==
    LET before == {j \in 1..(i - 1) : s[j] \notin CaseIgnorable}
        after  == {j \in (i + 1)..Len(s) : s[j] \notin CaseIgnorable}
    IN /\ before /= {}
       /\ s[CHOOSE j \in before : \A k \in before : k <= j] \in CasedLetters
       /\ \/ after = {}
          \/ s[CHOOSE j \in after : \A k \in after : j <= k] \notin CasedLetters

\* s.lower()
Lower(s) ==
    Concat([i \in 1..Len(s) |->
               IF s[i] = "U+03A3"
               THEN <<IF FinalSigma(s, i) THEN "U+03C2" ELSE "U+03C3">>
               ELSE LowerChar(s[i])])

-----------------------------------------------------------------------------
(* chunk_text_blocks *)

MaxBlocks   == 3
MaxBlockLen == 3
MaxLength   == 6

\* Block texts: the empty text, and texts with inner newlines but, as
\* get_text(strip=True) leaves them, no newline at either end.
BlockChars == {"a", NL}
BlockTexts ==
    {b \in SeqsUpTo(BlockChars, MaxBlockLen) :
        b = <<>> \/ (b[1] /= NL /\ b[Len(b)] /= NL)}

\* line 115: current_chunk += "\n" + block
AppendBlock(cur, block) == cur \o <<NL>> \o block

\* the test of line 113 with <= for <
Fits_Le(cur, block, L) == Len(cur) + Len(block) + 1 <= L

\* line 113: len(current_chunk) + len(block) + 1 < max_length
Fits(cur, block, L) == Len(cur) + Len(block) + 1 < L

\* the loop body with the oversized block merged into a non-empty accumulator
ChunkBody_Merge(st, block, L) ==
    IF st.current_chunk = <<>>
    THEN [st EXCEPT !.current_chunk = block]
    ELSE [st EXCEPT !.current_chunk = AppendBlock(@, block)]

\* lines 109-120: one iteration of the loop over text_blocks;
\* st = [chunks, current_chunk]
ChunkBody(st, block, L) ==
    IF st.current_chunk = <<>>
    THEN [st EXCEPT !.current_chunk = block]
    ELSE IF Fits(st.current_chunk, block, L)
         THEN [st EXCEPT !.current_chunk = AppendBlock(@, block)]
         ELSE [chunks |-> Append(st.chunks, st.current_chunk),
               current_chunk |-> block]

\* the final append of lines 123-124 left out
ChunkTail_Drop(st) == st.chunks

\* lines 123-124: append the last chunk if it is not empty
ChunkTail(st) ==
    IF st.current_chunk /= <<>> THEN Append(st.chunks, st.current_chunk)
    ELSE st.chunks

RECURSIVE ChunkLoop(_, _, _)
ChunkLoop(blocks, n, L) ==
    IF n = 0 THEN [chunks |-> <<>>, current_chunk |-> <<>>]
    ELSE ChunkBody(ChunkLoop(blocks, n - 1, L), blocks[n], L)

\* lines 94-126, as main calls it
chunk_text_blocks(blocks, L) == ChunkTail(ChunkLoop(blocks, Len(blocks), L))

ChunkInit ==
    /\ pc = "chunk_loop"
    /\ text_blocks \in SeqsUpTo(BlockTexts, MaxBlocks)
    /\ max_length \in 1..MaxLength
    /\ block_i = 1
    /\ current_chunk = <<>>
    /\ chunks = <<>>
    /\ hrefs = Idle /\ article_links = Idle
    /\ doc = Idle /\ article_container = Idle /\ content_blocks = Idle
    /\ article_urls = Idle /\ url_i = Idle /\ all_chunks = Idle
    /\ responses = Idle /\ console = Idle /\ output_file = Idle

\* one pass through the for loop, lines 103-120
ChunkIter ==
    /\ pc = "chunk_loop"
    /\ block_i <= Len(text_blocks)
    /\ LET st == ChunkBody([chunks |-> chunks, current_chunk |-> current_chunk],
                           text_blocks[block_i], max_length)
       IN /\ chunks' = st.chunks
          /\ current_chunk' = st.current_chunk
    /\ block_i' = block_i + 1
    /\ UNCHANGED <<pc, text_blocks, max_length, linkVars, scrapeVars, mainVars>>

\* loop exhausted: lines 122-126
ChunkReturn ==
    /\ pc = "chunk_loop"
    /\ block_i > Len(text_blocks)
    /\ chunks' = ChunkTail([chunks |-> chunks, current_chunk |-> current_chunk])
    /\ pc' = "chunk_done"
    /\ UNCHANGED <<text_blocks, max_length, block_i, current_chunk,
                   linkVars, scrapeVars, mainVars>>

ChunkNext == ChunkIter \/ ChunkReturn

Init == ChunkInit
Next == ChunkNext
Spec == Init /\ [][Next]_vars

-----------------------------------------------------------------------------
(* Properties of chunk_text_blocks *)

ChunkDone == pc = "chunk_done"

NonEmptyBlocks(B) == \A i \in 1..Len(B) : B[i] /= <<>>

\* The first n blocks of B regrouped: a new chunk starts at block 1 and after
\* every position in cuts; the other blocks are joined to their predecessor
\* by one separator.
RECURSIVE JoinCut(_, _, _)
JoinCut(B, cuts, n) ==
    IF n = 0 THEN <<>>
    ELSE LET prev == JoinCut(B, cuts, n - 1)
         IN IF n = 1 \/ (n - 1) \in cuts
            THEN Append(prev, B[n])
            ELSE [prev EXCEPT ![Len(prev)] = @ \o <<NL>> \o B[n]]

\* the number of chunks that JoinCut yields before block i's chunk, plus one
ChunkOf(cuts, i) == 1 + Cardinality({c \in cuts : c < i})

Count(s, x) == Cardinality({i \in 1..Len(s) : s[i] = x})

\* C1: for a non-empty sequence of non-empty blocks and a positive bound, the
\* returned chunks are the blocks in order, grouped into runs of consecutive
\* whole blocks, each run joined by the separator: undoing the joins gives
\* back exactly the input (nothing lost, duplicated, reordered or split).
C1_Reconstructs ==
    (ChunkDone /\ text_blocks /= <<>> /\ NonEmptyBlocks(text_blocks)) =>
        \E cuts \in SUBSET (1..(Len(text_blocks) - 1)) :
            chunks = JoinCut(text_blocks, cuts, Len(text_blocks))

C1_Witness ==
    /\ ChunkDone
    /\ Len(text_blocks) = 3 /\ NonEmptyBlocks(text_blocks)
    /\ Len(chunks) = 2
    /\ \E i \in 1..3 : NL \in Range(text_blocks[i])
    /\ chunks = JoinCut(text_blocks, {2}, 3)

\* C2 as stated: every chunk is shorter than max_length, unless it is a single
\* block whose own length exceeds max_length.
C2_Original ==
    ChunkDone =>
        \A k \in 1..Len(chunks) :
            \/ Len(chunks[k]) < max_length
            \/ \E i \in 1..Len(text_blocks) :
                   text_blocks[i] = chunks[k] /\ Len(text_blocks[i]) > max_length

\* C2 amended: every chunk is shorter than max_length, unless it is a single
\* block whose own length is at least max_length.
C2_Bounded ==
    ChunkDone =>
        \A k \in 1..Len(chunks) :
            \/ Len(chunks[k]) < max_length
            \/ \E i \in 1..Len(text_blocks) :
                   text_blocks[i] = chunks[k] /\ Len(text_blocks[i]) >= max_length

C2_Witness ==
    /\ ChunkDone
    /\ Len(text_blocks) = 3 /\ NonEmptyBlocks(text_blocks)
    /\ Len(chunks) = 3
    /\ Len(chunks[1]) < max_length
    /\ Len(chunks[2]) = max_length
    /\ Len(chunks[3]) > max_length

\* C3: a block longer than max_length is a chunk of its own wherever it
\* stands: with non-empty blocks the output is a regrouping of the input in
\* which a chunk starts at that block and ends with it, and in any input the
\* block occurs as a chunk exactly as often as it occurs as a block.
C3_OversizedAlone ==
    ChunkDone =>
        /\ \A i \in 1..Len(text_blocks) :
               Len(text_blocks[i]) > max_length =>
                   Count(chunks, text_blocks[i]) = Count(text_blocks, text_blocks[i])
        /\ (text_blocks /= <<>> /\ NonEmptyBlocks(text_blocks)) =>
               \E cuts \in SUBSET (1..(Len(text_blocks) - 1)) :
                   /\ chunks = JoinCut(text_blocks, cuts, Len(text_blocks))
                   /\ \A i \in 1..Len(text_blocks) :
                          Len(text_blocks[i]) > max_length =>
                              /\ (i > 1 => (i - 1) \in cuts)
                              /\ (i < Len(text_blocks) => i \in cuts)
                              /\ chunks[ChunkOf(cuts, i)] = text_blocks[i]

C3_Witness ==
    /\ ChunkDone
    /\ Len(text_blocks) = 3 /\ NonEmptyBlocks(text_blocks)
    /\ Len(text_blocks[2]) > max_length
    /\ Len(text_blocks[1]) <= max_length /\ Len(text_blocks[3]) <= max_length
    /\ chunks = text_blocks

\* what one loop iteration over a non-empty accumulator must do
GreedyStep ==
    (pc = "chunk_loop" /\ block_i <= Len(text_blocks) /\ current_chunk /= <<>>) =>
        LET b == text_blocks[block_i]
            fits == Len(current_chunk) + Len(b) + 1 < max_length
        IN /\ fits => /\ current_chunk' = current_chunk \o <<NL>> \o b
                      /\ chunks' = chunks
           /\ ~fits => /\ chunks' = Append(chunks, current_chunk)
                       /\ current_chunk' = b

\* in the result, every chunk boundary is one the next block forced
BoundariesForced ==
    (ChunkDone /\ text_blocks /= <<>> /\ NonEmptyBlocks(text_blocks)) =>
        \E cuts \in SUBSET (1..(Len(text_blocks) - 1)) :
            /\ chunks = JoinCut(text_blocks, cuts, Len(text_blocks))
            /\ \A c \in cuts :
                   Len(chunks[ChunkOf(cuts, c)]) + Len(text_blocks[c + 1]) + 1
                       >= max_length

\* C10: greedy packing. A block is appended to a non-empty accumulator, after
\* one separator, exactly when accumulator + block + 1 < max_length, and
\* otherwise the accumulator is closed and the block starts the next one; so
\* for consecutive chunks C_i, C_{i+1} of the result,
\* len(C_i) + len(first block of C_{i+1}) + 1 >= max_length.
C10_Greedy == [][GreedyStep]_vars /\ []BoundariesForced

C10_Witness ==
    /\ ChunkDone
    /\ Len(text_blocks) = 3 /\ NonEmptyBlocks(text_blocks)
    /\ Len(chunks) = 2
    /\ chunks[2] = text_blocks[2] \o <<NL>> \o text_blocks[3]
    /\ Len(chunks[1]) + Len(text_blocks[2]) + 1 = max_length

-----------------------------------------------------------------------------
(* get_help_articles *)

MaxAnchors == 4

\* line 6
BASE_URL == <<"h", "t", "t", "p", "s", ":", "/", "/", "w", "w", "w", ".", "n", "o", "t", "i", "o", "n", ".", "s", "o">>

S_help    == <<"/", "h", "e", "l", "p", "/">>
S_academy == <<"a", "c", "a", "d", "e", "m", "y">>
S_http    == <<"h", "t", "t", "p">>

\* The href attributes of the listing page's anchors, as link_tag.get("href", "")
\* gives them; an anchor without href gives the empty string.
H_foo      == <<"/", "h", "e", "l", "p", "/", "f", "o", "o">>
H_academy  == <<"/", "h", "e", "l", "p", "/", "a", "c", "a", "d", "e", "m", "y", "/", "b", "a", "r">>
H_other    == <<"h", "t", "t", "p", "s", ":", "/", "/", "o", "t", "h", "e", "r", ".", "s", "i", "t", "e", "/", "h", "e", "l", "p", "/", "b", "a", "z">>
H_page     == <<"/", "o", "t", "h", "e", "r", "/", "p", "a", "g", "e">>
H_Academy  == <<"/", "h", "e", "l", "p", "/", "A", "c", "a", "d", "e", "m", "y", "/", "x">>
H_abs_foo  == <<"h", "t", "t", "p", "s", ":", "/", "/", "w", "w", "w", ".", "n", "o", "t", "i", "o", "n", ".", "s", "o", "/", "h", "e", "l", "p", "/", "f", "o", "o">>
H_upper    == <<"H", "T", "T", "P", "S", ":", "/", "/", "o", "t", "h", "e", "r", ".", "s", "i", "t", "e", "/", "h", "e", "l", "p", "/", "b", "a", "z">>
H_relhttp  == <<"h", "t", "t", "p", "-", "a", "p", "i", "/", "h", "e", "l", "p", "/", "x">>
H_ecole    == <<"/", "h", "e", "l", "p", "/", "U+00C9", "c", "o", "l", "e">>
H_none     == <<>>

HrefSamples ==
    {H_foo, H_academy, H_other, H_page, H_Academy, H_abs_foo, H_upper,
     H_relhttp, H_ecole, H_none}

\* line 31: "/help/" in href and "academy" not in href.lower()
KeepHref(href) ==
    Contains(href, S_help) /\ ~Contains(Lower(href), S_academy)

\* lines 33-36: href if href.startswith("http") else BASE_URL + href
AbsoluteLink(href) ==
    IF StartsWith(href, S_http) THEN href ELSE BASE_URL \o href

\* lines 18-36: the loop over the anchors, appending the kept links in order
RECURSIVE CollectLinks(_)
CollectLinks(hs) ==
    IF hs = <<>> THEN <<>>
    ELSE IF KeepHref(Head(hs))
         THEN <<AbsoluteLink(Head(hs))>> \o CollectLinks(Tail(hs))
         ELSE CollectLinks(Tail(hs))

\* every list holding each element of S once
ListsOfSet(S) ==
    {l \in [1..Cardinality(S) -> S] : Range(l) = S}

\* line 39 left out: the list is returned as collected
DedupList_Skip(links) == {links}

\* line 39: list(set(article_links)); the order of a set's elements is not
\* defined, so every order is a possible result
DedupList(links) == ListsOfSet(Range(links))

\* lines 10-40: the lists get_help_articles may return for a page whose
\* anchors carry the hrefs hs
get_help_articles(hs) == DedupList(CollectLinks(hs))

LinkInit ==
    /\ pc = "links_start"
    /\ hrefs \in SeqsUpTo(HrefSamples, MaxAnchors)
    /\ article_links = <<>>
    /\ text_blocks = Idle /\ max_length = Idle /\ block_i = Idle
    /\ current_chunk = Idle /\ chunks = Idle
    /\ doc = Idle /\ article_container = Idle /\ content_blocks = Idle
    /\ article_urls = Idle /\ url_i = Idle /\ all_chunks = Idle
    /\ responses = Idle /\ console = Idle /\ output_file = Idle

\* lines 18-36
LinkCollect ==
    /\ pc = "links_start"
    /\ article_links' = CollectLinks(hrefs)
    /\ pc' = "links_collected"
    /\ UNCHANGED <<hrefs, chunkVars, scrapeVars, mainVars>>

\* lines 39-40
LinkReturn ==
    /\ pc = "links_collected"
    /\ article_links' \in DedupList(article_links)
    /\ pc' = "links_done"
    /\ UNCHANGED <<hrefs, chunkVars, scrapeVars, mainVars>>

LinkNext == LinkCollect \/ LinkReturn

LinkSpec == LinkInit /\ [][LinkNext]_vars

(* Properties of get_help_articles *)

LinksDone == pc = "links_done"

S_http_scheme  == <<"h", "t", "t", "p", ":", "/", "/">>
S_https_scheme == <<"h", "t", "t", "p", "s", ":", "/", "/">>

\* the href begins with an HTTP scheme (scheme names are case-insensitive)
BeginsWithHttpScheme(href) ==
    \/ StartsWith(Lower(href), S_http_scheme)
    \/ StartsWith(Lower(href), S_https_scheme)

\* the URL the claim gives an accepted href
ResolvedUrl(href) ==
    IF BeginsWithHttpScheme(href) THEN href ELSE BASE_URL \o href

AcceptedHrefs(hs) ==
    {hs[i] : i \in {j \in 1..Len(hs) :
        Contains(hs[j], S_help) /\ ~Contains(Lower(hs[j]), S_academy)}}

NoDuplicates(l) == \A i, j \in 1..Len(l) : l[i] = l[j] => i = j

\* C5: the returned list holds, once each, exactly the URLs of the hrefs that
\* contain "/help/" and no "academy" in any letter case, where an href that
\* does not begin with an HTTP scheme is prefixed with the base origin and
\* any other accepted href is kept as it is.
C5_LinkSet ==
    LinksDone =>
        /\ Range(article_links) = {ResolvedUrl(h) : h \in AcceptedHrefs(hrefs)}
        /\ NoDuplicates(article_links)

\* The same with "begins with an HTTP scheme" read as the code tests it: the
\* href begins with the four characters "http".
C5_LinkSetPrefixHttp ==
    LinksDone =>
        /\ Range(article_links) =
               {IF StartsWith(h, S_http) THEN h ELSE BASE_URL \o h :
                    h \in AcceptedHrefs(hrefs)}
        /\ NoDuplicates(article_links)

\* the example of the specification
C5_Example ==
    (LinksDone /\ hrefs = <<H_foo, H_academy, H_other, H_page>>) =>
        Range(article_links) = {BASE_URL \o H_foo, H_other}

-----------------------------------------------------------------------------
(* scrape_article *)

MaxElems == 3

RECURSIVE LStrip(_)
LStrip(s) ==
    IF s /= <<>> /\ Head(s) \in Whitespace THEN LStrip(Tail(s)) ELSE s

RECURSIVE RStrip(_)
RStrip(s) ==
    IF s /= <<>> /\ s[Len(s)] \in Whitespace
    THEN RStrip(SubSeq(s, 1, Len(s) - 1)) ELSE s

Strip(s) == RStrip(LStrip(s))

\* element.get_text(strip=True): every text node of the element stripped,
\* the empty ones dropped, the rest concatenated (lines 65, 71, 82)
GetText(nodes) == Concat([i \in 1..Len(nodes) |-> Strip(nodes[i])])

\* line 85: the prefix of a list item, the three code points of the source
\* file's string literal and a space
BULLET == <<"U+00E2", "U+20AC", "U+00A2", " ">>

HeadingTags == {"h1", "h2", "h3", "h4", "h5", "h6"}

\* The element's text nodes, for a heading, a paragraph or a span.
N_blank == << <<" ">> >>
N_b     == << <<NL, "\t", "b", "U+00A0">> >>
N_cd    == << <<"c", " ">>, <<" ">>, <<"d">> >>
NodeSamples == {N_blank, N_b, N_cd}

\* The <li> children of a list, each by its text nodes.
ItemSamples ==
    {<<>>, <<N_blank>>, <<N_b>>, <<N_b, N_blank, N_cd>>}

TextElems == [tag : {"h2", "p", "span"}, nodes : NodeSamples]
ListElems == [tag : {"ul", "ol"}, items : ItemSamples]
Elems == TextElems \cup ListElems

IsList(e) == e.tag \in {"ul", "ol"}

\* A fetched page: whether it has a <div class="help-article-container"> and a
\* <body>, the elements inside the div (inner) and the other elements of the
\* body (outer), each in document order.
MakeDoc(es, k, div, body) ==
    IF div
    THEN [hasDiv |-> TRUE, hasBody |-> body,
          outer |-> SubSeq(es, 1, k), inner |-> SubSeq(es, k + 1, Len(es))]
    ELSE [hasDiv |-> FALSE, hasBody |-> body, outer |-> es, inner |-> <<>>]

\* lines 54-57: the container div, else the body, else None
FindContainer(d) ==
    IF d.hasDiv THEN "div" ELSE IF d.hasBody THEN "body" ELSE "None"

\* the elements that container.find_all visits, in document order
ContainerElems(d, c) == IF c = "div" THEN d.inner ELSE d.outer

\* the heading loop collecting the paragraphs as well, in one pass
HeadingBlocks_Interleaved(es) ==
    LET F[i \in 0..Len(es)] ==
            IF i = 0 THEN <<>>
            ELSE IF es[i].tag \in (HeadingTags \cup {"p"}) /\ GetText(es[i].nodes) /= <<>>
                 THEN Append(F[i - 1], GetText(es[i].nodes))
                 ELSE F[i - 1]
    IN F[Len(es)]

\* lines 64-67
HeadingBlocks(es) ==
    LET F[i \in 0..Len(es)] ==
            IF i = 0 THEN <<>>
            ELSE IF es[i].tag \in HeadingTags /\ GetText(es[i].nodes) /= <<>>
                 THEN Append(F[i - 1], GetText(es[i].nodes))
                 ELSE F[i - 1]
    IN F[Len(es)]

\* lines 70-73
ParagraphBlocks(es) ==
    LET F[i \in 0..Len(es)] ==
            IF i = 0 THEN <<>>
            ELSE IF es[i].tag = "p" /\ GetText(es[i].nodes) /= <<>>
                 THEN Append(F[i - 1], GetText(es[i].nodes))
                 ELSE F[i - 1]
    IN F[Len(es)]

\* lines 80-85: the prefixed texts of the non-empty items
BulletListText(items) ==
    LET F[i \in 0..Len(items)] ==
            IF i = 0 THEN <<>>
            ELSE IF GetText(items[i]) /= <<>>
                 THEN Append(F[i - 1], BULLET \o GetText(items[i]))
                 ELSE F[i - 1]
    IN F[Len(items)]

\* lines 78-88: find_all("ul") only
ListBlocks(es) ==
    LET F[i \in 0..Len(es)] ==
            IF i = 0 THEN <<>>
            ELSE IF es[i].tag = "ul" /\ BulletListText(es[i].items) /= <<>>
                 THEN Append(F[i - 1], Join(BulletListText(es[i].items), <<NL>>))
                 ELSE F[i - 1]
    IN F[Len(es)]

\* lines 43-91 for a fetched page: raised, when line 64 calls find_all on
\* None (AttributeError), or the returned blocks
scrape_article(d) ==
    LET c  == FindContainer(d)
        es == ContainerElems(d, c)
    IN IF c = "None" THEN [raised |-> TRUE, blocks |-> <<>>]
       ELSE [raised |-> FALSE,
             blocks |-> HeadingBlocks(es) \o ParagraphBlocks(es) \o ListBlocks(es)]

ScrapeInit ==
    /\ pc = "scrape_start"
    /\ \E es \in SeqsUpTo(Elems, MaxElems), k \in 0..MaxElems, div, body \in BOOLEAN :
           /\ k <= Len(es)
           /\ doc = MakeDoc(es, k, div, body)
    /\ article_container = "unset"
    /\ content_blocks = <<>>
    /\ text_blocks = Idle /\ max_length = Idle /\ block_i = Idle
    /\ current_chunk = Idle /\ chunks = Idle
    /\ hrefs = Idle /\ article_links = Idle
    /\ article_urls = Idle /\ url_i = Idle /\ all_chunks = Idle
    /\ responses = Idle /\ console = Idle /\ output_file = Idle

\* lines 54-61
ScrapeFind ==
    /\ pc = "scrape_start"
    /\ article_container' = FindContainer(doc)
    /\ content_blocks' = <<>>
    /\ pc' = "scrape_headings"
    /\ UNCHANGED <<doc, chunkVars, linkVars, mainVars>>

\* lines 64-67; find_all on None raises AttributeError
ScrapeHeadings ==
    /\ pc = "scrape_headings"
    /\ \/ /\ article_container = "None"
          /\ pc' = "scrape_raised"
          /\ UNCHANGED content_blocks
       \/ /\ article_container /= "None"
          /\ content_blocks' =
                 content_blocks \o HeadingBlocks(ContainerElems(doc, article_container))
          /\ pc' = "scrape_paragraphs"
    /\ UNCHANGED <<doc, article_container, chunkVars, linkVars, mainVars>>

\* lines 70-73
ScrapeParagraphs ==
    /\ pc = "scrape_paragraphs"
    /\ content_blocks' =
           content_blocks \o ParagraphBlocks(ContainerElems(doc, article_container))
    /\ pc' = "scrape_lists"
    /\ UNCHANGED <<doc, article_container, chunkVars, linkVars, mainVars>>

\* lines 78-91
ScrapeLists ==
    /\ pc = "scrape_lists"
    /\ content_blocks' =
           content_blocks \o ListBlocks(ContainerElems(doc, article_container))
    /\ pc' = "scrape_done"
    /\ UNCHANGED <<doc, article_container, chunkVars, linkVars, mainVars>>

ScrapeNext == ScrapeFind \/ ScrapeHeadings \/ ScrapeParagraphs \/ ScrapeLists

ScrapeSpec == ScrapeInit /\ [][ScrapeNext]_vars

(* Properties of scrape_article *)

ScrapeDone == pc = "scrape_done"

\* the elements of the container that was searched
Scanned == ContainerElems(doc, article_container)

\* the block made of a list's items
ListText(e) == Join(BulletListText(e.items), <<NL>>)

\* the text an element contributes as a block
BlockText(e) == IF IsList(e) THEN ListText(e) ELSE GetText(e.nodes)

\* the blocks of the elements at the positions S, in document order
RECURSIVE BlocksAt(_, _)
BlocksAt(es, S) ==
    IF S = {} THEN <<>>
    ELSE LET m == CHOOSE x \in S : \A y \in S : x <= y
         IN <<BlockText(es[m])>> \o BlocksAt(es, S \ {m})

Positions(es, tags) == {i \in 1..Len(es) : es[i].tag \in tags}

\* the positions of the lists, ordered or unordered, with a non-empty item
FilledLists(es) ==
    {i \in Positions(es, {"ul", "ol"}) : BulletListText(es[i].items) /= <<>>}

\* the number of blocks the heading and paragraph passes emit
TextBlockCount(es) ==
    Cardinality({i \in Positions(es, HeadingTags \cup {"p"}) :
                    GetText(es[i].nodes) /= <<>>})

\* C7 as stated: every list of the container, unordered or ordered, with at
\* least one non-empty item gives exactly one block, its non-empty item texts
\* prefixed with the bullet marker and joined by newlines; a list whose items
\* are all empty gives none.
C7_EveryList ==
    ScrapeDone =>
        SubSeq(content_blocks, TextBlockCount(Scanned) + 1, Len(content_blocks))
            = BlocksAt(Scanned, FilledLists(Scanned))

\* The same for the unordered lists alone, which is what the code emits.
C7_UnorderedLists ==
    ScrapeDone =>
        SubSeq(content_blocks, TextBlockCount(Scanned) + 1, Len(content_blocks))
            = BlocksAt(Scanned, {i \in FilledLists(Scanned) : Scanned[i].tag = "ul"})

\* C8 as stated: scrape_article raises for no document, whatever its shape.
C8_NeverRaises == pc /= "scrape_raised"

\* The same for the documents that have the container or a body.
C8_RaisesOnlyWithoutContainer ==
    pc = "scrape_raised" => (~doc.hasDiv /\ ~doc.hasBody)

\* C9: the returned blocks are grouped by category: the blocks of headings,
\* then those of paragraphs, then those of lists, each group in document
\* order whatever the positions of the elements; and no block is empty after
\* trimming.
C9_CategoryGrouped ==
    ScrapeDone =>
        /\ \E hs \in SUBSET Positions(Scanned, HeadingTags) :
           \E ps \in SUBSET Positions(Scanned, {"p"}) :
           \E ls \in SUBSET Positions(Scanned, {"ul", "ol"}) :
               content_blocks =
                   BlocksAt(Scanned, hs) \o BlocksAt(Scanned, ps) \o BlocksAt(Scanned, ls)
        /\ \A k \in 1..Len(content_blocks) : Strip(content_blocks[k]) /= <<>>

C9_Witness ==
    /\ ScrapeDone
    /\ Len(Scanned) = 3
    /\ Scanned[1].tag = "ul" /\ Scanned[2].tag = "p" /\ Scanned[3].tag = "h2"
    /\ Len(content_blocks) = 3
    /\ content_blocks =
           <<BlockText(Scanned[3]), BlockText(Scanned[2]), BlockText(Scanned[1])>>

-----------------------------------------------------------------------------
(* main *)

MaxListing == 3

\* line 139: max_length=750
MAIN_MAX_LENGTH == 750

\* requests.get raised (lines 15, 48)
NetworkError == [error |-> "requests.get raised"]

LongText(n, c) == [i \in 1..n |-> c]

\* The pages the article URLs may answer with.
P_short  == MakeDoc(<<[tag |-> "h2", nodes |-> N_b], [tag |-> "p", nodes |-> N_cd]>>,
                    0, TRUE, TRUE)
P_long   == MakeDoc(<<[tag |-> "ul", items |-> <<N_b>>],
                      [tag |-> "p", nodes |-> <<LongText(400, "x")>>],
                      [tag |-> "p", nodes |-> <<LongText(400, "y")>>]>>,
                    0, FALSE, TRUE)
P_huge   == MakeDoc(<<[tag |-> "p", nodes |-> <<LongText(800, "x")>>],
                      [tag |-> "p", nodes |-> N_cd],
                      [tag |-> "h2", nodes |-> N_b]>>,
                    0, TRUE, FALSE)
P_empty  == MakeDoc(<<[tag |-> "span", nodes |-> N_b]>>, 0, FALSE, TRUE)
P_nobody == MakeDoc(<<[tag |-> "p", nodes |-> N_b]>>, 0, FALSE, FALSE)

MainResponses == {NetworkError, P_short, P_long, P_huge, P_empty, P_nobody}

\* The hrefs of the listing page: two that name the same article, and two
\* more articles.
MainHrefs == {H_foo, H_abs_foo, H_other, H_upper}

\* lines 48-91 for whatever the request gives
ScrapeResponse(resp) ==
    IF resp = NetworkError THEN [raised |-> TRUE, blocks |-> <<>>]
    ELSE scrape_article(resp)

\* lines 142-147: one record per chunk, chunk_index from enumerate
ChunkRecords(url, cs) ==
    [i \in 1..Len(cs) |-> [url |-> url, chunk_index |-> i - 1, text |-> cs[i]]]

\* the loop body without the handler of line 148: the exception leaves main
TryArticle_NoCatch(st, url, resp) ==
    LET r == ScrapeResponse(resp)
    IN IF r.raised
       THEN [st EXCEPT !.crashed = TRUE]
       ELSE [st EXCEPT !.all_chunks =
                 @ \o ChunkRecords(url, chunk_text_blocks(r.blocks, MAIN_MAX_LENGTH))]

\* lines 136-149: the try block for one URL; st = [all_chunks, console, crashed].
\* Whatever scrape_article raises is caught and printed, and nothing has been
\* appended by then; chunk_text_blocks and the appends do not raise.
TryArticle(st, url, resp) ==
    LET r == ScrapeResponse(resp)
    IN IF r.raised
       THEN [st EXCEPT !.console = Append(@, url)]
       ELSE [st EXCEPT !.all_chunks =
                 @ \o ChunkRecords(url, chunk_text_blocks(r.blocks, MAIN_MAX_LENGTH))]

MainInit ==
    /\ pc = "main_start"
    /\ hrefs \in SeqsUpTo(MainHrefs, MaxListing)
    /\ article_urls = <<>>
    /\ url_i = 1
    /\ all_chunks = <<>>
    /\ responses = <<>>
    /\ console = <<>>
    /\ output_file = [written |-> FALSE, records |-> <<>>]
    /\ article_links = Idle
    /\ text_blocks = Idle /\ max_length = Idle /\ block_i = Idle
    /\ current_chunk = Idle /\ chunks = Idle
    /\ doc = Idle /\ article_container = Idle /\ content_blocks = Idle

\* lines 131-134; the request for the listing page may raise, and an
\* exception of get_help_articles is not caught
MainDiscover ==
    /\ pc = "main_start"
    /\ \/ /\ pc' = "main_crashed"
          /\ UNCHANGED article_urls
       \/ /\ article_urls' \in get_help_articles(hrefs)
          /\ pc' = "main_loop"
    /\ UNCHANGED <<hrefs, article_links, url_i, all_chunks, responses, console,
                   output_file, chunkVars, scrapeVars>>

\* lines 135-149: one article
MainArticle ==
    /\ pc = "main_loop"
    /\ url_i <= Len(article_urls)
    /\ \E resp \in MainResponses :
           LET st == TryArticle([all_chunks |-> all_chunks, console |-> console,
                                 crashed |-> FALSE],
                                article_urls[url_i], resp)
           IN /\ all_chunks' = st.all_chunks
              /\ console' = st.console
              /\ pc' = IF st.crashed THEN "main_crashed" ELSE "main_loop"
              /\ responses' = Append(responses, resp)
    /\ url_i' = url_i + 1
    /\ UNCHANGED <<hrefs, article_links, article_urls, output_file,
                   chunkVars, scrapeVars>>

\* lines 152-153: json.dump writes the records as one array, in list order
MainWrite ==
    /\ pc = "main_loop"
    /\ url_i > Len(article_urls)
    /\ output_file' = [written |-> TRUE, records |-> all_chunks]
    /\ pc' = "main_done"
    /\ UNCHANGED <<hrefs, article_links, article_urls, url_i, all_chunks,
                   responses, console, chunkVars, scrapeVars>>

MainNext == MainDiscover \/ MainArticle \/ MainWrite

MainSpec == MainInit /\ [][MainNext]_vars

(* Properties of main *)

MainDone == pc = "main_done"

\* the scrape-and-chunk step of the k-th article raised
Failed(k) == ScrapeResponse(responses[k]).raised

\* the records of a sequence that carry the URL, in order
RecordsOf(rs, url) == SelectSeq(rs, LAMBDA r : r.url = url)

TextsOf(rs) == [i \in 1..Len(rs) |-> rs[i].text]

\* the chunks of the k-th article
ChunksOfArticle(k) ==
    chunk_text_blocks(ScrapeResponse(responses[k]).blocks, MAIN_MAX_LENGTH)

\* C4: no failing article ends the run (it ends early only when the listing
\* page cannot be fetched, before any article is tried):
\* it reaches the write, and the written output holds, for every article that
\* did not fail, all its chunk records, and no record of a failing article.
C4_FailureIsolation ==
    /\ pc = "main_crashed" => responses = <<>>
    /\ MainDone =>
           /\ output_file.written
           /\ Len(responses) = Len(article_urls)
           /\ \A k \in 1..Len(article_urls) :
                  LET rs == RecordsOf(output_file.records, article_urls[k])
                  IN IF Failed(k) THEN rs = <<>>
                     ELSE TextsOf(rs) = ChunksOfArticle(k)

C4_Witness ==
    /\ MainDone
    /\ Len(article_urls) = 3
    /\ ~Failed(1) /\ Failed(2) /\ ~Failed(3)
    /\ responses[2] = P_nobody
    /\ Len(RecordsOf(output_file.records, article_urls[1])) = 2
    /\ Len(RecordsOf(output_file.records, article_urls[3])) = 3
    /\ Len(output_file.records) = 5

\* C6: among the records main collects and writes, those of one article URL
\* carry the indexes 0, 1, ..., n-1 in the order of that article's chunks, so
\* no two records share URL and index.
C6_ChunkIndexes ==
    (pc \in {"main_loop", "main_done"}) =>
        LET out == IF MainDone THEN output_file.records ELSE all_chunks
        IN /\ \A k \in 1..Len(responses) :
                  LET rs == RecordsOf(out, article_urls[k])
                  IN /\ \A i \in 1..Len(rs) : rs[i].chunk_index = i - 1
                     /\ ~Failed(k) => TextsOf(rs) = ChunksOfArticle(k)
           /\ \A i, j \in 1..Len(out) :
                  (out[i].url = out[j].url /\ out[i].chunk_index = out[j].chunk_index)
                      => i = j

C6_Witness ==
    /\ MainDone
    /\ Len(article_urls) = 2
    /\ responses = <<P_huge, P_long>>
    /\ Len(output_file.records) = 5
    /\ [i \in 1..5 |-> output_file.records[i].chunk_index] = <<0, 1, 2, 0, 1>>
    /\ H_foo \in Range(hrefs) /\ H_abs_foo \in Range(hrefs)

====
